---------------------------- MODULE Spec2Model ----------------------------
(***************************************************************************)
(* Model of sort_python_imports.py (Wing IDE port of the Vim import        *)
(* sorter).  A string is a sequence of one-character strings; the regular  *)
(* expressions of the module are modelled by the matches Python's          *)
(* backtracking matcher finds for them.                                    *)
(***************************************************************************)
EXTENDS Naturals, Integers, Sequences, FiniteSets, TLC

(***************************************************************************)
(* Characters and strings                                                  *)
(***************************************************************************)
LowerCase == <<"a","b","c","d","e","f","g","h","i","j","k","l","m",
               "n","o","p","q","r","s","t","u","v","w","x","y","z">>

UpperCase == <<"A","B","C","D","E","F","G","H","I","J","K","L","M",
               "N","O","P","Q","R","S","T","U","V","W","X","Y","Z">>

Punct == [c \in {"\t", "\n", " ", "#", "%", "(", ")", ",", ".", "=", "_"} |->
            CASE c = "\t" -> 9  [] c = "\n" -> 10 [] c = " " -> 32
              [] c = "#" -> 35  [] c = "%" -> 37  [] c = "(" -> 40
              [] c = ")" -> 41  [] c = "," -> 44  [] c = "." -> 46
              [] c = "=" -> 61  [] c = "_" -> 95]

Letters == {LowerCase[i] : i \in 1..26} \cup {UpperCase[i] : i \in 1..26}

\* ord(c) for the characters of the model's alphabet
OrdTable ==
    [c \in DOMAIN Punct \cup Letters |->
        IF c \in DOMAIN Punct THEN Punct[c]
        ELSE IF \E i \in 1..26 : LowerCase[i] = c
             THEN 96 + (CHOOSE i \in 1..26 : LowerCase[i] = c)
             ELSE 64 + (CHOOSE i \in 1..26 : UpperCase[i] = c)]

Ord(c) == OrdTable[c]

\* str.upper() on one character
UpperTable ==
    [c \in DOMAIN Punct \cup Letters |->
        IF \E i \in 1..26 : LowerCase[i] = c
        THEN UpperCase[CHOOSE i \in 1..26 : LowerCase[i] = c]
        ELSE c]

UpperChar(c) == UpperTable[c]

\* str.upper()
Upper(s) == [i \in 1..Len(s) |-> UpperChar(s[i])]

\* \s of the re module, str.isspace()
IsSpace(c) == c \in {" ", "\t", "\n"}

\* s[i-1:] with i a 1-based index
From(s, i) == SubSeq(s, i, Len(s))

\* s.startswith(p) at 1-based index i
HasAt(s, i, p) ==
    /\ i + Len(p) - 1 <= Len(s)
    /\ \A k \in 1..Len(p) : s[i + k - 1] = p[k]

RECURSIVE StrLess(_, _)
\* a < b for two str values (lexicographic on character codes)
StrLess(a, b) ==
    IF b = <<>> THEN FALSE
    ELSE IF a = <<>> THEN TRUE
    ELSE IF Ord(Head(a)) # Ord(Head(b)) THEN Ord(Head(a)) < Ord(Head(b))
    ELSE StrLess(Tail(a), Tail(b))

StrLeq(a, b) == a = b \/ StrLess(a, b)

RECURSIVE SkipSpace(_, _)
\* index after the longest run of whitespace starting at i (greedy \s*)
SkipSpace(s, i) ==
    IF i <= Len(s) /\ IsSpace(s[i]) THEN SkipSpace(s, i + 1) ELSE i

RECURSIVE SkipNonSpace(_, _)
\* index after the longest run of non-whitespace starting at i (greedy \S*)
SkipNonSpace(s, i) ==
    IF i <= Len(s) /\ ~IsSpace(s[i]) THEN SkipNonSpace(s, i + 1) ELSE i

RECURSIVE SkipNonHash(_, _)
\* index after the longest run of [^#] starting at i
SkipNonHash(s, i) ==
    IF i <= Len(s) /\ s[i] # "#" THEN SkipNonHash(s, i + 1) ELSE i

RECURSIVE SkipDot(_, _)
\* index after the longest run of . (anything but a newline) starting at i
SkipDot(s, i) ==
    IF i <= Len(s) /\ s[i] # "\n" THEN SkipDot(s, i + 1) ELSE i

\* str.strip()
Strip(s) ==
    LET a == SkipSpace(s, 1)
        b == IF a > Len(s) THEN a - 1
             ELSE CHOOSE j \in a..Len(s) :
                    /\ ~IsSpace(s[j])
                    /\ \A k \in (j + 1)..Len(s) : IsSpace(s[k])
    IN  SubSeq(s, a, b)

(***************************************************************************)
(* The regular expressions.  A match is a record; NoMatch is "None".       *)
(***************************************************************************)
kw_import == <<"i","m","p","o","r","t">>

kw_from == <<"f","r","o","m">>

kw_future == <<"_","_","f","u","t","u","r","e","_","_">>

NoMatch == [matched |-> FALSE]

\* import\s(?P<items>[^#]*)(?P<comment>(#.*)?) matched at index i
ImportTail(s, i, indent, module) ==
    IF HasAt(s, i, kw_import) /\ i + 6 <= Len(s) /\ IsSpace(s[i + 6])
    THEN LET k == SkipNonHash(s, i + 7)
         IN  [matched |-> TRUE, indent |-> indent, module |-> module,
              items |-> SubSeq(s, i + 7, k - 1),
              comment |-> IF k <= Len(s)
                          THEN SubSeq(s, k, SkipDot(s, k) - 1) ELSE <<>>]
    ELSE NoMatch

\* __future_import_re.match(line)
__future_import_re(line) ==
    LET a == SkipSpace(line, 1)
        c == SkipSpace(line, a + 4)
        e == SkipSpace(line, c + 10)
    IN  IF /\ HasAt(line, a, kw_from) /\ c > a + 4
           /\ HasAt(line, c, kw_future) /\ e > c + 10
        THEN ImportTail(line, e, SubSeq(line, 1, a - 1), kw_future)
        ELSE NoMatch

\* __global_import_re.match(line); the pattern has no module group
__global_import_re(line) ==
    LET a == SkipSpace(line, 1)
    IN  ImportTail(line, a, SubSeq(line, 1, a - 1), <<>>)

\* __from_import_re.match(line): the greedy match takes the longest
\* non-blank run as the module; when that fails and at least two blanks
\* follow "from", backtracking leaves the module empty
__from_import_re(line) ==
    LET a == SkipSpace(line, 1)
        c == SkipSpace(line, a + 4)
        d == SkipNonSpace(line, c)
        e == SkipSpace(line, d)
        indent == SubSeq(line, 1, a - 1)
        greedy == IF e > d
                  THEN ImportTail(line, e, indent, SubSeq(line, c, d - 1))
                  ELSE NoMatch
    IN  IF ~(HasAt(line, a, kw_from) /\ c > a + 4) THEN NoMatch
        ELSE IF greedy.matched THEN greedy
        ELSE IF c > a + 5 THEN ImportTail(line, c, indent, <<>>)
        ELSE NoMatch

\* __boring_re.match(line) is not None; $ also matches before a final newline
__boring_re(line) ==
    LET a == SkipSpace(line, 1)
        j == SkipDot(line, a)
    IN  \/ a > Len(line)
        \/ /\ line[a] = "#"
           /\ j >= Len(line)

\* __endl_re.search(line).group()
__endl_re(line) ==
    IF line # <<>> /\ line[Len(line)] = "\n" THEN <<"\n">> ELSE <<>>

_is_future_import(line) == __future_import_re(line).matched

_is_global_import(line) == __global_import_re(line).matched

_is_from_import(line) == __from_import_re(line).matched

_is_boring(line) == __boring_re(line)

_has_leading_ws(line) == IF line = <<>> THEN FALSE ELSE IsSpace(line[1])

\* a test that leaves the future-imports out
Mut_is_unindented_import(line) ==
    /\ ~_has_leading_ws(line)
    /\ _is_global_import(line) \/ _is_from_import(line)
    /\ ~_is_future_import(line)

_is_unindented_import(line) ==
    ~_has_leading_ws(line) /\ (_is_global_import(line) \/ _is_from_import(line))

(***************************************************************************)
(* Results of calls: a value, or the exception that left the call          *)
(***************************************************************************)
Value(v) == [err |-> "none", val |-> v]

Raise(e) == [err |-> e, val |-> <<>>]

(***************************************************************************)
(* Sorting, splitting, joining, formatting                                 *)
(***************************************************************************)
\* the comparison turned round
MutKeyLess(k, l) == l[1] < k[1] \/ (k[1] = l[1] /\ StrLess(l[2], k[2]))

\* k < l for two keys; a key is a tuple of a number and a str (the key of
\* _sort_and_join, a str alone, is written <<0, str>>)
KeyLess(k, l) == k[1] < l[1] \/ (k[1] = l[1] /\ StrLess(k[2], l[2]))

\* _sorted(l, key), given keys[i] = key(l[i]): l.sort() on the pairs
\* (key(x), x); x is a str, so the pairs are totally ordered and the sorted
\* list is unique
_sorted(l, keys) ==
    LET n == Len(l)
        PairLess(i, j) == \/ KeyLess(keys[i], keys[j])
                          \/ keys[i] = keys[j] /\ StrLess(l[i], l[j])
        pos(i) == 1 + Cardinality({j \in 1..n : PairLess(j, i)})
                    + Cardinality({j \in 1..(i - 1) : l[j] = l[i]})
    IN  [p \in 1..n |-> l[CHOOSE i \in 1..n : pos(i) = p]]

RECURSIVE SplitComma(_)
\* items.split(',')
SplitComma(s) ==
    IF \E i \in 1..Len(s) : s[i] = ","
    THEN LET i == CHOOSE i \in 1..Len(s) :
                    s[i] = "," /\ \A k \in 1..(i - 1) : s[k] # ","
         IN  <<SubSeq(s, 1, i - 1)>> \o SplitComma(From(s, i + 1))
    ELSE <<s>>

RECURSIVE SetToSeq(_)
\* list(l) for a Set l, in some iteration order
SetToSeq(S) ==
    IF S = {} THEN <<>>
    ELSE LET x == CHOOSE x \in S : TRUE IN <<x>> \o SetToSeq(S \ {x})

RECURSIVE Join(_, _)
\* sep.join(l)
Join(sep, l) ==
    IF l = <<>> THEN <<>>
    ELSE IF Len(l) = 1 THEN l[1]
    ELSE l[1] \o sep \o Join(sep, Tail(l))

RECURSIVE Format(_, _)
\* fmt % args for a tuple args of str: %s takes the next argument, %% is a
\* percent sign, a % at the end or before another character is an error, and
\* so is an argument left over (in the lines of RepairLines, BlockLines and
\* DocLines a % is followed by %, by s or by the end of the comment)
Format(fmt, args) ==
    IF fmt = <<>>
    THEN IF args = <<>> THEN Value(<<>>) ELSE Raise("TypeError")
    ELSE IF fmt[1] # "%"
    THEN LET r == Format(Tail(fmt), args)
         IN  IF r.err = "none" THEN Value(<<fmt[1]>> \o r.val) ELSE r
    ELSE IF Len(fmt) = 1 THEN Raise("ValueError")
    ELSE IF fmt[2] = "%"
    THEN LET r == Format(From(fmt, 3), args)
         IN  IF r.err = "none" THEN Value(<<"%">> \o r.val) ELSE r
    ELSE IF fmt[2] = "s"
    THEN IF args = <<>> THEN Raise("TypeError")
         ELSE LET r == Format(From(fmt, 3), Tail(args))
              IN  IF r.err = "none" THEN Value(args[1] \o r.val) ELSE r
    ELSE Raise("ValueError")

(***************************************************************************)
(* Splitting and rendering one import line                                 *)
(***************************************************************************)
\* _make_template(indent, comment)
_make_template(indent, comment) ==
    indent \o <<"%", "s">>
           \o (IF comment # <<>> THEN <<" ">> \o comment ELSE <<>>)

\* _split_import(regex, line), given imports = regex.match(line)
_split_import(imports) ==
    IF ~imports.matched THEN Raise("ValueError")
    ELSE LET items == imports.items
             inner == IF /\ items # <<>> /\ items[1] = "("
                         /\ items[Len(items)] = ")"
                      THEN SubSeq(items, 2, Len(items) - 1)
                      ELSE items
             parts == SplitComma(inner)
         IN  Value([module |-> imports.module,
                    items |-> {Strip(parts[i]) : i \in 1..Len(parts)},
                    template |-> _make_template(imports.indent,
                                                imports.comment)])

_split_globals(line) == _split_import(__global_import_re(line))

_split_from(line) == _split_import(__from_import_re(line))

\* key=lambda x: x.upper()
ItemKey(x) == <<0, Upper(x)>>

\* _sort_and_join(items)
_sort_and_join(items) ==
    LET l == SetToSeq(items)
    IN  Join(<<",", " ">>, _sorted(l, [i \in 1..Len(l) |-> ItemKey(l[i])]))

\* _make_global_import(items, template): template % 'import %s' % joined
_make_global_import(items, template) ==
    LET body == Format(template, <<kw_import \o <<" ", "%", "s">> >>)
    IN  IF body.err # "none" THEN body
        ELSE Format(body.val, <<_sort_and_join(items)>>)

\* _make_from_import(module, items, template):
\* template % 'from %s import %s' % (module, joined)
_make_from_import(module, items, template) ==
    LET body == Format(template, <<kw_from \o <<" ", "%", "s", " ">>
                                     \o kw_import \o <<" ", "%", "s">> >>)
    IN  IF body.err # "none" THEN body
        ELSE Format(body.val, <<module, _sort_and_join(items)>>)

\* a repair that hands back every line that is no import
Mut_repair_any(line) ==
    LET suffix == __endl_re(line)
        Finish(r) == IF r.err = "none" THEN Value(r.val \o suffix) ELSE r
    IN  IF _is_global_import(line)
        THEN LET sp == _split_globals(line).val
             IN  Finish(_make_global_import(sp.items, sp.template))
        ELSE IF _is_from_import(line)
        THEN LET sp == _split_from(line).val
             IN  Finish(_make_from_import(sp.module, sp.items, sp.template))
        ELSE Value(line)

\* _repair_any(line)
_repair_any(line) ==
    LET suffix == __endl_re(line)
        Finish(r) == IF r.err = "none" THEN Value(r.val \o suffix) ELSE r
    IN  IF _is_global_import(line)
        THEN LET sp == _split_globals(line).val
             IN  Finish(_make_global_import(sp.items, sp.template))
        ELSE IF _is_from_import(line)
        THEN LET sp == _split_from(line).val
             IN  Finish(_make_from_import(sp.module, sp.items, sp.template))
        ELSE IF _is_boring(line) THEN Value(line)
        ELSE Raise("ValueError")

(***************************************************************************)
(* Locating and normalizing the block                                      *)
(***************************************************************************)
RECURSIVE GetLinesLoop(_, _, _, _, _)
\* the for loop of _get_lines from index num on (num counts from 0)
GetLinesLoop(lines, num, start, end, start_found) ==
    IF num >= Len(lines) THEN <<start, end>>
    ELSE LET line == lines[num + 1]
         IN  IF _is_unindented_import(line)
             THEN GetLinesLoop(lines, num + 1,
                               IF start_found THEN start ELSE num,
                               num + 1, TRUE)
             ELSE IF end # 0 /\ ~_is_boring(line) THEN <<start, end>>
             ELSE GetLinesLoop(lines, num + 1, start, end, start_found)

RECURSIVE MutGetLinesLoop(_, _, _, _, _)
\* the loop without its break
MutGetLinesLoop(lines, num, start, end, start_found) ==
    IF num >= Len(lines) THEN <<start, end>>
    ELSE IF _is_unindented_import(lines[num + 1])
    THEN MutGetLinesLoop(lines, num + 1, IF start_found THEN start ELSE num,
                         num + 1, TRUE)
    ELSE MutGetLinesLoop(lines, num + 1, start, end, start_found)

Mut_get_lines(lines) == MutGetLinesLoop(lines, 0, 0, 0, FALSE)

\* _get_lines(lines)
_get_lines(lines) == GetLinesLoop(lines, 0, 0, 0, FALSE)

None == -1

\* rank(line) inside _fixed
rank(line) ==
    IF _is_future_import(line) THEN 3
    ELSE IF _is_global_import(line) THEN 2
    ELSE IF _is_from_import(line) THEN 1
    ELSE IF _is_boring(line) THEN 0
    ELSE None

\* the key with the rank not negated
MutLineKey(x) == <<rank(x), Upper(x)>>

\* key=lambda x: (-rank(x), x.upper())
LineKey(x) == <<0 - rank(x), Upper(x)>>

\* a filter that drops every boring line
MutKept(lines) == SelectSeq(lines, LAMBDA line : ~_is_boring(line))

\* filter(lambda line: line.strip(), lines)
Kept(lines) == SelectSeq(lines, LAMBDA line : Strip(line) # <<>>)

\* _fixed(lines): map raises at the first line _repair_any rejects, and
\* -rank(x) is a TypeError when rank(x) is None
_fixed(lines) ==
    LET kept == Kept(lines)
        repaired == [i \in 1..Len(kept) |-> _repair_any(kept[i])]
        bad == {i \in 1..Len(kept) : repaired[i].err # "none"}
        vals == [i \in 1..Len(kept) |-> repaired[i].val]
    IN  IF bad # {}
        THEN Raise(repaired[CHOOSE i \in bad : \A j \in bad : i <= j].err)
        ELSE IF \E i \in 1..Len(vals) : rank(vals[i]) = None
        THEN Raise("TypeError")
        ELSE Value(_sorted(vals, [i \in 1..Len(vals) |-> LineKey(vals[i])]))

\* a slice assignment that takes one line too many
MutSetSlice(lines, start, end, new) ==
    SubSeq(lines, 1, start) \o new \o SubSeq(lines, end + 2, Len(lines))

\* lines[start:end] = new
SetSlice(lines, start, end, new) ==
    SubSeq(lines, 1, start) \o new \o SubSeq(lines, end + 1, Len(lines))

\* _fix_safely(lines): the list after the call, or the exception; the right
\* hand side is evaluated before the slice is assigned
_fix_safely(lines) ==
    LET se == _get_lines(lines)
        r == _fixed(SubSeq(lines, se[1] + 1, se[2]))
    IN  IF r.err = "none" THEN Value(SetSlice(lines, se[1], se[2], r.val))
        ELSE r

RECURSIVE SplitNewline(_)
\* text.split('\n')
SplitNewline(s) ==
    IF \E i \in 1..Len(s) : s[i] = "\n"
    THEN LET i == CHOOSE i \in 1..Len(s) :
                    s[i] = "\n" /\ \A k \in 1..(i - 1) : s[k] # "\n"
         IN  <<SubSeq(s, 1, i - 1)>> \o SplitNewline(From(s, i + 1))
    ELSE <<s>>

(***************************************************************************)
(* Inputs                                                                  *)
(***************************************************************************)
MaxBlockLines == 3

MaxDocLines == 3

MaxRuns == 2

\* leading whitespace of a line handed to _repair_any
Indents ==
    {<<>>,
     <<" ">>}

\* statements of a line handed to _repair_any
Statements ==
    {<<"i","m","p","o","r","t"," ","o","s">>,
     <<"i","m","p","o","r","t"," ","S","y","s",","," ","b">>,
     <<"i","m","p","o","r","t"," ","(","o","s",")">>,
     <<"i","m","p","o","r","t">>,
     <<"f","r","o","m"," ","f","o","o"," ","i","m","p","o","r","t"," ","(","b",","," ","a",")">>,
     <<"f","r","o","m"," ","f","o","o"," ","i","m","p","o","r","t"," "," ","(","b","a","r",")">>,
     <<"f","r","o","m"," ","f","o","o"," ","i","m","p","o","r","t"," ","b","a","r">>,
     <<"f","r","o","m"," ","_","_","f","u","t","u","r","e","_","_"," ","i","m","p","o","r","t"," ","x">>,
     <<>>,
     <<"x","=","y">>}

\* what follows the statement on such a line
Comments ==
    {<<>>,
     <<"#"," ","c">>,
     <<" ","#"," ","c">>,
     <<" "," ","#"," ","n","e","e","d","e","d">>,
     <<"#","%">>,
     <<" ","#","%","s">>,
     <<" ","#","%","%","%","%">>}

\* line terminators
Terminators ==
    {<<>>,
     <<"\n">>}

\* the lines handed to _repair_any
RepairLines ==
    {i \o b \o c \o t : i \in Indents, b \in Statements,
                        c \in Comments, t \in Terminators}

\* the lines of the lists handed to _fixed
BlockLines ==
    {<<"i","m","p","o","r","t"," ","s","y","s">>,
     <<"i","m","p","o","r","t"," ","o","s">>,
     <<"i","m","p","o","r","t"," ","S","y","s">>,
     <<"f","r","o","m"," ","f","o","o"," ","i","m","p","o","r","t"," "," ","(","b","a","r",")">>,
     <<"f","r","o","m"," ","_","_","f","u","t","u","r","e","_","_"," ","i","m","p","o","r","t"," ","x">>,
     <<"#"," ","c">>,
     <<>>,
     <<"x","=","y">>}

\* the lines of the editor's documents (text.split('\n') leaves no newline in a line)
DocLines ==
    {<<"i","m","p","o","r","t"," ","o","s">>,
     <<"f","r","o","m"," ","f","o","o"," ","i","m","p","o","r","t"," "," ","(","b","a","r",")">>,
     <<"f","r","o","m"," ","_","_","f","u","t","u","r","e","_","_"," ","i","m","p","o","r","t"," ","x">>,
     <<"#"," ","c">>,
     <<>>,
     <<"x","=","y">>,
     <<"i","m","p","o","r","t"," ","o","s"," ","#","%">>}

\* the lists of at most n elements of S
SeqsUpTo(S, n) == UNION {[1..k -> S] : k \in 0..n}

\* the document texts
Docs == {Join(<<"\n">>, d) : d \in SeqsUpTo(DocLines, MaxDocLines) \ {<<>>}}

(***************************************************************************)
(* State                                                                   *)
(***************************************************************************)
VARIABLES
    call,       \* the function under execution
    pc,         \* its position
    lines,      \* the list of lines it works on
    orig,       \* that list as the caller handed it over
    start,      \* _fix_safely: start of the located range
    end,        \* _fix_safely: end of the located range
    result,     \* what the call returned or raised
    again,      \* what _fixed returned or raised on its own result
    text,       \* the text of the editor's document
    undo,       \* an undo action is open on the document
    history     \* the document text at each BeginUndoAction/EndUndoAction

vars == <<call, pc, lines, orig, start, end, result, again, text, undo,
          history>>

Pending == [err |-> "pending", val |-> <<>>]

Init ==
    /\ pc = "ready"
    /\ start = 0
    /\ end = 0
    /\ result = Pending
    /\ again = Pending
    /\ undo = FALSE
    /\ \/ /\ call = "_repair_any"
          /\ lines \in {<<l>> : l \in RepairLines}
          /\ text = <<>>
       \/ /\ call = "_fixed"
          /\ lines \in SeqsUpTo(BlockLines, MaxBlockLines)
          /\ text = <<>>
       \/ /\ call = "sort_imports"
          /\ lines = <<>>
          /\ text \in Docs
    /\ orig = lines
    /\ history = <<text>>

Outcome(r) == IF r.err = "none" THEN "returned" ELSE "raised"

\* _repair_any(line) called on one line
RepairAny ==
    /\ call = "_repair_any"
    /\ pc = "ready"
    /\ result' = _repair_any(lines[1])
    /\ pc' = Outcome(result')
    /\ UNCHANGED <<call, lines, orig, start, end, again, text, undo, history>>

\* _fixed(lines) called on a list of lines
Fixed ==
    /\ call = "_fixed"
    /\ pc = "ready"
    /\ result' = _fixed(lines)
    /\ pc' = Outcome(result')
    /\ UNCHANGED <<call, lines, orig, start, end, again, text, undo, history>>

\* _fixed called on the list the first call returned
FixedAgain ==
    /\ call = "_fixed"
    /\ pc = "returned"
    /\ again' = _fixed(result.val)
    /\ pc' = "returned again"
    /\ UNCHANGED <<call, lines, orig, start, end, result, text, undo, history>>

\* sort_imports: document.BeginUndoAction()
BeginUndoAction ==
    /\ call = "sort_imports"
    /\ pc = "ready"
    /\ Len(history) <= MaxRuns
    /\ undo' = TRUE
    /\ pc' = "began"
    /\ UNCHANGED <<call, lines, orig, start, end, result, again, text, history>>

\* sort_imports: fixed = _fix_safely(document.GetText().split('\n'))
FixSafely ==
    /\ call = "sort_imports"
    /\ pc = "began"
    /\ orig' = SplitNewline(text)
    /\ start' = _get_lines(orig')[1]
    /\ end' = _get_lines(orig')[2]
    /\ result' = _fix_safely(orig')
    /\ lines' = IF result'.err = "none" THEN result'.val ELSE orig'
    /\ pc' = IF result'.err = "none" THEN "fixed" ELSE "raised"
    /\ UNCHANGED <<call, again, text, undo, history>>

\* sort_imports: document.SetText('\n'.join(fixed))
SetText ==
    /\ call = "sort_imports"
    /\ pc = "fixed"
    /\ text' = Join(<<"\n">>, lines)
    /\ pc' = "set"
    /\ UNCHANGED <<call, lines, orig, start, end, result, again, undo, history>>

\* sort_imports: document.EndUndoAction(); the command can be given again
EndUndoAction ==
    /\ call = "sort_imports"
    /\ pc = "set"
    /\ undo' = FALSE
    /\ history' = Append(history, text)
    /\ pc' = "ready"
    /\ UNCHANGED <<call, lines, orig, start, end, result, again, text>>

Next ==
    \/ RepairAny
    \/ Fixed
    \/ FixedAgain
    \/ BeginUndoAction
    \/ FixSafely
    \/ SetText
    \/ EndUndoAction

Spec == Init /\ [][Next]_vars

(***************************************************************************)
(* Properties                                                              *)
(***************************************************************************)
IsImport(line) == _is_global_import(line) \/ _is_from_import(line)

IsOther(line) == ~IsImport(line) /\ ~_is_boring(line)

IsBlank(line) == Strip(line) = <<>>

IsCommentOnly(line) == _is_boring(line) /\ ~IsBlank(line)

Count(l, x) == Cardinality({i \in 1..Len(l) : l[i] = x})

FixedReturned == call = "_fixed" /\ pc \in {"returned", "returned again"}

Located == call = "sort_imports" /\ pc \in {"fixed", "raised", "set"}

Spliced == call = "sort_imports" /\ pc \in {"fixed", "set"}

\* C1: the list _fixed returns is ordered non-decreasingly by the key
\* (-rank, uppercased text): lines of higher rank (future 3, plain 2, from 1)
\* come first, and lines of equal rank are non-decreasing case-insensitively
C1_OrderedByRankThenText ==
    FixedReturned =>
        \A i, j \in 1..Len(result.val) : i < j =>
            LET a == result.val[i]
                b == result.val[j]
            IN  /\ rank(a) >= rank(b)
                /\ rank(a) = rank(b) => StrLeq(Upper(a), Upper(b))

C1_Witness ==
    /\ FixedReturned
    /\ \E i, j, k \in 1..Len(result.val) :
          /\ rank(result.val[i]) = 3
          /\ rank(result.val[j]) = 2
          /\ rank(result.val[k]) = 1
    /\ rank(orig[1]) = 1
    /\ rank(orig[Len(orig)]) = 3

\* C2: _fixed applied to its own result returns that result again, and the
\* command given twice leaves the document it left the first time
C2_Idempotent ==
    /\ (call = "_fixed" /\ pc = "returned again") => again = result
    /\ (call = "sort_imports" /\ Len(history) >= 3) => history[3] = history[2]

\* C3: _fix_safely changes only the located range: the lines before start and
\* the lines from end on are those of the document, in the same order, what
\* lies between is the normalized block, and a document without unindented
\* import is located at (0, 0) and left as it is
C3_OnlyRangeChanges ==
    Spliced =>
        LET n == Len(orig)
            m == Len(lines)
            rest == n - end
        IN  /\ orig = SplitNewline(history[Len(history)])
            /\ 0 <= start /\ start <= end /\ end <= n
            /\ m >= start + rest
            /\ \A i \in 1..start : lines[i] = orig[i]
            /\ \A k \in 0..(rest - 1) : lines[m - k] = orig[n - k]
            /\ Value(SubSeq(lines, start + 1, m - rest))
                 = _fixed(SubSeq(orig, start + 1, end))
            /\ (\A i \in 1..n : ~_is_unindented_import(orig[i]))
                 => (start = 0 /\ end = 0 /\ lines = orig)
            /\ pc = "set" => text = Join(<<"\n">>, lines)

C3_Witness ==
    /\ call = "sort_imports"
    /\ pc = "set"
    /\ start > 0
    /\ end < Len(orig)
    /\ lines # orig

\* C4: a line that is neither a plain-import, a from-import nor a boring
\* line makes the call raise, and nothing is written: the caller's list is
\* as it was, and a command whose call raised has left the document text as
\* it was and never reaches SetText
C4_BadLineRaisesNothingWritten ==
    /\ (call = "_repair_any" /\ pc # "ready" /\ IsOther(orig[1]))
          => (pc = "raised" /\ result.err = "ValueError" /\ lines = orig)
    /\ (call = "_fixed" /\ pc # "ready"
                        /\ \E i \in 1..Len(orig) : IsOther(orig[i]))
          => (pc = "raised" /\ result.err # "none" /\ lines = orig)
    /\ (call = "sort_imports" /\ result.err \notin {"none", "pending"})
          => /\ pc = "raised"
             /\ lines = orig
             /\ text = Join(<<"\n">>, orig)
             /\ text = history[Len(history)]

C4_Witness ==
    /\ call = "_fixed"
    /\ pc = "raised"
    /\ Len(orig) >= 2
    /\ IsImport(orig[1])
    /\ IsOther(orig[2])

\* C5 (as stated): the list _fixed returns holds no boring line, neither a
\* blank line nor a comment-only line
C5_NoBoringLineInOutput ==
    FixedReturned => \A i \in 1..Len(result.val) : ~_is_boring(result.val[i])

\* C5 (amended): _fixed discards the lines that are blank after trimming and
\* no others: the list it returns holds no blank line, holds every
\* comment-only line of its input as often as the input does and unchanged,
\* and holds them after all its import lines
C5_OnlyBlankLinesDiscarded ==
    FixedReturned =>
        /\ \A i \in 1..Len(result.val) : ~IsBlank(result.val[i])
        /\ \A i \in 1..Len(orig) :
              IsCommentOnly(orig[i])
                 => Count(result.val, orig[i]) = Count(orig, orig[i])
        /\ \A i, j \in 1..Len(result.val) :
              (i < j /\ _is_boring(result.val[i])) => _is_boring(result.val[j])

C5_Witness ==
    /\ FixedReturned
    /\ \E i, j, k \in 1..Len(orig) :
          /\ i < j
          /\ IsCommentOnly(orig[i])
          /\ IsImport(orig[j])
          /\ IsBlank(orig[k])
    /\ IsCommentOnly(result.val[Len(result.val)])

\* C6 (as stated): a future-import line neither sets the start of the
\* located range nor advances its end
C6_FutureImportNeverBoundary ==
    Located =>
        \A i \in 1..Len(orig) :
            _is_future_import(orig[i]) => (start # i - 1 /\ end # i)

\* C6 (amended): a future-import line without leading whitespace passes the
\* unindented-import test, as it matches the from-import pattern too: when no
\* unindented import precedes it, it sets the start of the located range and
\* the range includes it
C6_UnindentedFutureImportIsBoundary ==
    Located =>
        \A i \in 1..Len(orig) :
            (_is_future_import(orig[i]) /\ ~_has_leading_ws(orig[i]))
               => /\ _is_from_import(orig[i])
                  /\ _is_unindented_import(orig[i])
                  /\ (\A j \in 1..(i - 1) : ~_is_unindented_import(orig[j]))
                        => (start = i - 1 /\ end >= i)

C6_Witness ==
    /\ Located
    /\ Len(orig) >= 2
    /\ ~_is_unindented_import(orig[1])
    /\ _is_future_import(orig[2])
    /\ start = 1
    /\ end = 2

import_sys == <<"i","m","p","o","r","t"," ","s","y","s">>

import_os == <<"i","m","p","o","r","t"," ","o","s">>

import_os_sys == <<"i","m","p","o","r","t"," ","o","s",","," ","s","y","s">>

\* C7 (as stated): _fixed turns the lines 'import sys', 'import os' into
\* the one line 'import os, sys'
C7_PlainImportsCombined ==
    (FixedReturned /\ orig = <<import_sys, import_os>>)
        => result.val = <<import_os_sys>>

\* C7 (amended): _fixed turns the lines 'import sys', 'import os' into the
\* two lines 'import os', 'import sys': it combines no lines, every line of
\* its input that is not blank gives one line of its result
C7_PlainImportsKeptApart ==
    FixedReturned =>
        /\ orig = <<import_sys, import_os>>
              => result.val = <<import_os, import_sys>>
        /\ Len(result.val)
              = Cardinality({i \in 1..Len(orig) : ~IsBlank(orig[i])})
        /\ Cardinality({i \in 1..Len(result.val) :
                           _is_global_import(result.val[i])})
              = Cardinality({i \in 1..Len(orig) : _is_global_import(orig[i])})

C7_Witness ==
    /\ FixedReturned
    /\ orig = <<import_sys, import_os>>
    /\ Len(result.val) = 2

import_os_needed == <<"i","m","p","o","r","t"," ","o","s"," "," ","#"," ","n","e","e","d","e","d">>

\* the match _repair_any renders an import line from
ImportMatch(line) ==
    IF _is_global_import(line) THEN __global_import_re(line)
    ELSE __from_import_re(line)

\* C8: rendering an import line keeps its formatting context: whatever the
\* comment holds, the call returns a line that starts with the indentation of
\* the line handed over and ends with its comment and its line terminator,
\* and the line 'import os  # needed' is returned as it is
C8_RenderingKeepsContext ==
    (call = "_repair_any" /\ pc # "ready" /\ IsImport(orig[1])) =>
        LET line == orig[1]
            m == ImportMatch(line)
            tail == m.comment \o __endl_re(line)
            out == result.val
        IN  /\ pc = "returned"
            /\ HasAt(out, 1, m.indent)
            /\ Len(out) >= Len(tail)
            /\ From(out, Len(out) - Len(tail) + 1) = tail
            /\ line = import_os_needed => out = line

\* C9: _get_lines returns (start, end) with 0 <= start <= end <= len(lines):
\* (0, 0) when no line is an unindented import; otherwise start is the index
\* of the first unindented import and end is one past the last unindented
\* import before the first line after start that is neither boring nor an
\* unindented import, so that the range holds unindented imports and boring
\* lines only and ends with an import
C9_LocatedRange ==
    Located =>
        LET n == Len(orig)
            UI == {i \in 1..n : _is_unindented_import(orig[i])}
        IN  /\ 0 <= start /\ start <= end /\ end <= n
            /\ UI = {} => (start = 0 /\ end = 0)
            /\ UI # {} =>
                 LET first == CHOOSE i \in UI : \A j \in UI : i <= j
                     stops == {j \in (first + 1)..n :
                                  j \notin UI /\ ~_is_boring(orig[j])}
                     stop == IF stops = {} THEN n + 1
                             ELSE CHOOSE j \in stops : \A k \in stops : j <= k
                     last == CHOOSE i \in UI :
                                /\ i < stop
                                /\ \A j \in UI : j < stop => j <= i
                 IN  /\ start = first - 1
                     /\ end = last
                     /\ \A i \in (start + 1)..end :
                           i \in UI \/ _is_boring(orig[i])
                     /\ end \in UI

C9_Witness ==
    /\ Located
    /\ Len(orig) = 3
    /\ start = 0
    /\ end = 1
    /\ IsOther(orig[2])
    /\ _is_unindented_import(orig[3])

\* C10: an import line whose item list is wrapped in one pair of parentheses,
\* whether or not a comment or a line terminator follows the list, is
\* rendered with the items of the list sorted case-insensitively and joined
\* with ', ', and without the parentheses
C10_ParenthesesRemoved ==
    (call = "_repair_any" /\ pc = "returned" /\ IsImport(orig[1])) =>
        LET line == orig[1]
            m == ImportMatch(line)
            items == Strip(m.items)
            parts == SplitComma(SubSeq(items, 2, Len(items) - 1))
            joined == _sort_and_join({Strip(parts[i]) : i \in 1..Len(parts)})
            head == IF _is_global_import(line) THEN kw_import \o <<" ">>
                    ELSE kw_from \o <<" ">> \o m.module \o <<" ">>
                            \o kw_import \o <<" ">>
            out == result.val
        IN  (Len(items) >= 2 /\ items[1] = "(" /\ items[Len(items)] = ")")
               => /\ HasAt(out, 1, m.indent \o head \o joined)
                  /\ \A i \in 1..Len(out) : out[i] \notin {"(", ")"}

=============================================================================
